---- MODULE Spec2Model ----
(***************************************************************************)
(* queries.js: a mongosh script of CRUD commands, queries, a pagination    *)
(* helper, three aggregation pipelines and two createIndex calls against   *)
(* the collection plp_bookstore.books.                                     *)
(*                                                                         *)
(* The collection is a sequence of documents in natural (insertion) order. *)
(* Prices are kept in cents (14.99 is 1499), so that $avg is an exact      *)
(* fraction.  A $sort leaves the relative order of documents with equal    *)
(* sort keys unspecified: every order of the ties is a possible outcome,   *)
(* chosen afresh by each query.                                            *)
(***************************************************************************)
EXTENDS Integers, Sequences, FiniteSets, TLC

VARIABLES books, indexes, mode, pc, out, printed

vars == <<books, indexes, mode, pc, out, printed>>

(***************************************************************************)
(* Bounds of the model.                                                    *)
(***************************************************************************)
MaxBooks == 3

MaxPageBooks == 6

MaxDup == 2

MaxDecadeBooks == 2

MaxYear == 12

(***************************************************************************)
(* Constants of the script.                                                *)
(***************************************************************************)
pageSize == 5

NewPrice == 1499

YearAfter == 2015

StockYearAfter == 2010

DecadeWidth == 10

SilentRiver == "The Silent River"

RustAndRoses == "Rust and Roses"

MariaNjeri == "Maria Njeri"

Fantasy == "Fantasy"

(***************************************************************************)
(* Documents.                                                              *)
(***************************************************************************)
Catalogue ==
  { [title |-> SilentRiver,  author |-> MariaNjeri, genre |-> Fantasy,
     published_year |-> 2018, price |-> 1299, in_stock |-> TRUE],
    [title |-> SilentRiver,  author |-> "Ken Otieno", genre |-> "Drama",
     published_year |-> 2005, price |-> 1499, in_stock |-> FALSE],
    [title |-> RustAndRoses, author |-> MariaNjeri, genre |-> "Romance",
     published_year |-> 2011, price |-> 1299, in_stock |-> TRUE],
    [title |-> RustAndRoses, author |-> "Ken Otieno", genre |-> Fantasy,
     published_year |-> 2015, price |-> 2000, in_stock |-> TRUE],
    [title |-> "Atlas of Clouds", author |-> "Ken Otieno", genre |-> "Romance",
     published_year |-> 1999, price |-> 1000, in_stock |-> FALSE] }

WithId(b, i) ==
  [_id |-> i, title |-> b.title, author |-> b.author, genre |-> b.genre,
   published_year |-> b.published_year, price |-> b.price, in_stock |-> b.in_stock]

\* The byte order of the titles, which sort({title: 1}) compares.
TitleRank ==
  [t \in {"Atlas of Clouds", RustAndRoses, SilentRiver} |->
     CASE t = "Atlas of Clouds" -> 1
       [] t = RustAndRoses -> 2
       [] t = SilentRiver -> 3]

(***************************************************************************)
(* The store's query operators.                                            *)
(***************************************************************************)
\* A filter is a set of conditions <<field, operator, value>>, all of which
\* a matching document satisfies.
Matches(d, filter) ==
  \A c \in filter :
    CASE c[2] = "eq" -> d[c[1]] = c[3]
      [] c[2] = "gt" -> d[c[1]] > c[3]

Project(d, fields) == [f \in fields |-> d[f]]

\* find(filter, projection): the matching documents in natural order.
Find(coll, filter, fields) ==
  LET hits == SelectSeq(coll, LAMBDA d : Matches(d, filter))
  IN  [i \in 1..Len(hits) |-> Project(hits[i], fields)]

AllFields == {"_id", "title", "author", "genre", "published_year", "price", "in_stock"}

\* The order of two values of a sort key: titles by their bytes, averages as
\* fractions, numbers as numbers.
KeyLeq(field, x, y) ==
  CASE field = "title" -> TitleRank[x] <= TitleRank[y]
    [] field = "avgPrice" -> x.num * y.den <= y.num * x.den
    [] OTHER -> x <= y

\* Whether a may come before b under the sort {field: dir}.
Before(a, b, field, dir) ==
  IF dir = 1 THEN KeyLeq(field, a[field], b[field]) ELSE KeyLeq(field, b[field], a[field])

\* sort({field: dir}): every arrangement of s in which each element may come
\* before all that follow it; elements with equal keys come in any order.
SortOutcomes(s, field, dir) ==
  LET RECURSIVE Orders(_)
      Orders(I) ==
        IF I = {} THEN {<<>>}
        ELSE UNION { { <<s[i]>> \o t : t \in Orders(I \ {i}) } :
                     i \in {i \in I : \A j \in I : Before(s[i], s[j], field, dir)} }
  IN  Orders(DOMAIN s)

Skip(s, n) == IF n >= Len(s) THEN <<>> ELSE SubSeq(s, n + 1, Len(s))

Limit(s, n) == IF n >= Len(s) THEN s ELSE SubSeq(s, 1, n)

(***************************************************************************)
(* The store's write operators.                                            *)
(***************************************************************************)
FirstMatch(coll, filter) ==
  LET I == {i \in DOMAIN coll : Matches(coll[i], filter)}
  IN  IF I = {} THEN 0 ELSE CHOOSE i \in I : \A j \in I : i <= j

\* updateOne taken for updateMany: every match is updated.
UpdateOne_EveryMatch(coll, filter, field, value) ==
  [i \in DOMAIN coll |->
     IF Matches(coll[i], filter) THEN [coll[i] EXCEPT ![field] = value] ELSE coll[i]]

\* updateOne(filter, {$set: {field: value}}): the first match only, no upsert.
UpdateOne(coll, filter, field, value) ==
  LET i == FirstMatch(coll, filter)
  IN  IF i = 0 THEN coll ELSE [coll EXCEPT ![i][field] = value]

UpdateResult(coll, filter, field, value) ==
  LET i == FirstMatch(coll, filter)
  IN  [matchedCount  |-> IF i = 0 THEN 0 ELSE 1,
       modifiedCount |-> IF i = 0 \/ coll[i][field] = value THEN 0 ELSE 1,
       upsertedCount |-> 0]

\* deleteOne taken for deleteMany: every match is removed.
DeleteOne_EveryMatch(coll, filter) ==
  SelectSeq(coll, LAMBDA d : ~Matches(d, filter))

\* deleteOne(filter): the first match only.
DeleteOne(coll, filter) ==
  LET i == FirstMatch(coll, filter)
  IN  IF i = 0 THEN coll
      ELSE SubSeq(coll, 1, i - 1) \o SubSeq(coll, i + 1, Len(coll))

DeleteResult(coll, filter) ==
  [deletedCount |-> IF FirstMatch(coll, filter) = 0 THEN 0 ELSE 1]

(***************************************************************************)
(* The aggregation stages.                                                 *)
(***************************************************************************)
RECURSIVE GCD(_, _)
GCD(a, b) == IF b = 0 THEN a ELSE GCD(b, a % b)

\* $avg with an integer division.
Avg_Truncated(sum, n) == [num |-> sum \div n, den |-> 1]

\* $avg: the sum over the count, as a fraction in lowest terms.
Avg(sum, n) == LET g == GCD(sum, n) IN [num |-> sum \div g, den |-> n \div g]

\* A $group that opens a new group for every document.
Accumulate_NeverMerges(rows, k, v) ==
  Append(rows, [_id |-> k, sum |-> v, n |-> 1, count |-> 1])

\* One document entering a $group stage: its group's accumulators ($avg keeps
\* the sum and the number of its values, {$sum: 1} adds 1) are updated, or a
\* new group is opened with them.
Accumulate(rows, k, v) ==
  IF \E i \in DOMAIN rows : rows[i]._id = k
  THEN LET i == CHOOSE i \in DOMAIN rows : rows[i]._id = k
       IN  [rows EXCEPT ![i].sum = @ + v, ![i].n = @ + 1, ![i].count = @ + 1]
  ELSE Append(rows, [_id |-> k, sum |-> v, n |-> 1, count |-> 1])

\* The $group stage over the <<key, value>> pairs of the documents.
RECURSIVE GroupFold(_, _)
GroupFold(pairs, rows) ==
  IF pairs = <<>> THEN rows
  ELSE GroupFold(Tail(pairs), Accumulate(rows, Head(pairs)[1], Head(pairs)[2]))

\* {$group: {_id: "$key", avgPrice: {$avg: "$value"}, count: {$sum: 1}}}
GroupAvg(coll, keyField, valueField) ==
  LET pairs == [i \in 1..Len(coll) |-> <<coll[i][keyField], coll[i][valueField]>>]
      rows  == GroupFold(pairs, <<>>)
  IN  [i \in 1..Len(rows) |->
         [_id |-> rows[i]._id, avgPrice |-> Avg(rows[i].sum, rows[i].n),
          count |-> rows[i].count]]

\* {$group: {_id: "$key", count: {$sum: 1}}}
GroupCount(coll, keyField) ==
  LET pairs == [i \in 1..Len(coll) |-> <<coll[i][keyField], 0>>]
      rows  == GroupFold(pairs, <<>>)
  IN  [i \in 1..Len(rows) |-> [_id |-> rows[i]._id, count |-> rows[i].count]]

\* $mod: the remainder has the sign of the dividend.
Mod(a, b) == IF a >= 0 THEN a % b ELSE 0 - ((0 - a) % b)

\* The year rounded to the nearest multiple of ten.
Decade_Nearest(y) == ((y + 5) \div DecadeWidth) * DecadeWidth

Decade(y) == y - Mod(y, DecadeWidth)

\* {$project: {title: 1, published_year: 1, decade: {$subtract: ...}}}
ProjectDecade(coll) ==
  [i \in 1..Len(coll) |->
     [_id |-> coll[i]._id, title |-> coll[i].title,
      published_year |-> coll[i].published_year,
      decade |-> Decade(coll[i].published_year)]]

AveragePriceByGenre(coll) == SortOutcomes(GroupAvg(coll, "genre", "price"), "avgPrice", -1)

\* {$sort: {count: 1}} in place of {$sort: {count: -1}}.
TopAuthorByBookCount_Ascending(coll) ==
  { Limit(s, 1) :
    s \in SortOutcomes(GroupCount(coll, "author"), "count", 1) }

TopAuthorByBookCount(coll) ==
  { Limit(s, 1) : s \in SortOutcomes(GroupCount(coll, "author"), "count", -1) }

CountByDecade(coll) == SortOutcomes(GroupCount(ProjectDecade(coll), "decade"), "_id", 1)

(***************************************************************************)
(* Pagination.                                                             *)
(***************************************************************************)
\* showPage with skip = page * pageSize.
showPage_SkipsPage(page) ==
  LET skip == page * pageSize
  IN  { Limit(Skip(s, skip), pageSize) :
        s \in SortOutcomes(Find(books, {}, {"title", "author", "price"}), "title", 1) }

\* showPage(page): the outcomes of find().sort({title: 1}).skip().limit().
showPage(page) ==
  LET skip == (page - 1) * pageSize
  IN  { Limit(Skip(s, skip), pageSize) :
        s \in SortOutcomes(Find(books, {}, {"title", "author", "price"}), "title", 1) }

(***************************************************************************)
(* Indexes.  An index is its key pattern, a sequence of <<field, dir>>;    *)
(* the collection exists exactly when it has its _id index.                *)
(***************************************************************************)
IdIndex == << <<"_id", 1>> >>

TitleIndex == << <<"title", 1>> >>

CompoundIndex == << <<"author", 1>>, <<"published_year", -1>> >>

GenreIndex == << <<"genre", 1>> >>

Range(s) == {s[i] : i \in DOMAIN s}

\* createIndex that does not look for the index first.
CreateIndex_AlwaysAdds(ix, keys) ==
  Append(IF ix = <<>> THEN <<IdIndex>> ELSE ix, keys)

\* createIndex(keys): a no-op when an index with these keys exists; creates
\* the collection when it does not exist.
CreateIndex(ix, keys) ==
  LET base == IF ix = <<>> THEN <<IdIndex>> ELSE ix
  IN  IF keys \in Range(base) THEN base ELSE Append(base, keys)

\* The name mongosh's createIndex returns.
IndexName(keys) == IF keys = TitleIndex THEN "title_1" ELSE "author_1_published_year_-1"

\* find({title: t}).explain("executionStats"): an index whose first key is
\* title is scanned when there is one, the whole collection otherwise.
Explain(coll, ix, t) ==
  LET n == Len(Find(coll, {<<"title", "eq", t>>}, AllFields))
  IN  IF \E k \in Range(ix) : k[1][1] = "title"
      THEN [stage |-> "IXSCAN", nReturned |-> n,
            totalKeysExamined |-> n, totalDocsExamined |-> n]
      ELSE [stage |-> "COLLSCAN", nReturned |-> n,
            totalKeysExamined |-> 0, totalDocsExamined |-> Len(coll)]

(***************************************************************************)
(* The initial states: the collection the script is run against.           *)
(***************************************************************************)
\* The collection that holds the books b[1], ..., b[m], inserted in this order.
Collection(b) == [i \in DOMAIN b |-> WithId(b[i], i)]

\* The indexes a collection may already have, in the order of creation.
IndexLists ==
  LET U == {TitleIndex, CompoundIndex, GenreIndex}
      NoRepeat(s) == \A i, j \in DOMAIN s : i # j => s[i] # s[j]
  IN  { <<IdIndex>> \o s :
        s \in {s \in UNION {[1..m -> U] : m \in 0..3} : NoRepeat(s)} }

\* mongosh --file runs the script and stops at an uncaught error; pasted
\* into the shell, every command is run whatever the one before did.
Init ==
  /\ \E m \in 0..MaxBooks : \E b \in [1..m -> Catalogue] : books = Collection(b)
  /\ indexes \in IndexLists \cup {<<>>}
  /\ (indexes = <<>> => books = <<>>)
  /\ mode \in {"file", "paste"}
  /\ pc = "createCollection"
  /\ out = <<>>
  /\ printed = <<>>

(***************************************************************************)
(* The statements of the script, in order.  pc names the next one.         *)
(***************************************************************************)
\* A statement that only reads: its value is what the shell shows.
Query(at, result, next) ==
  /\ pc = at
  /\ out' = result
  /\ pc' = next
  /\ UNCHANGED <<books, indexes, mode, printed>>

CreateCollection ==
  /\ pc = "createCollection"
  /\ IF indexes = <<>>
     THEN /\ indexes' = <<IdIndex>>
          /\ out' = [ok |-> 1]
          /\ pc' = "findGenre"
     ELSE /\ indexes' = indexes
          /\ out' = [ok |-> 0, codeName |-> "NamespaceExists"]
          /\ pc' = IF mode = "file" THEN "aborted" ELSE "findGenre"
  /\ UNCHANGED <<books, mode, printed>>

FindGenre ==
  Query("findGenre", Find(books, {<<"genre", "eq", Fantasy>>}, AllFields),
        "findGenreProjected")

FindGenreProjected ==
  Query("findGenreProjected",
        Find(books, {<<"genre", "eq", Fantasy>>}, {"title", "author", "price"}),
        "findAfterYear")

FindAfterYear ==
  Query("findAfterYear", Find(books, {<<"published_year", "gt", YearAfter>>}, AllFields),
        "findAuthor")

FindAuthor ==
  Query("findAuthor", Find(books, {<<"author", "eq", MariaNjeri>>}, AllFields),
        "updateOne")

UpdatePrice ==
  /\ pc = "updateOne"
  /\ books' = UpdateOne(books, {<<"title", "eq", SilentRiver>>}, "price", NewPrice)
  /\ out' = UpdateResult(books, {<<"title", "eq", SilentRiver>>}, "price", NewPrice)
  /\ pc' = "verifyUpdate"
  /\ UNCHANGED <<indexes, mode, printed>>

VerifyUpdate ==
  Query("verifyUpdate", Find(books, {<<"title", "eq", SilentRiver>>}, {"title", "price"}),
        "deleteOne")

DeleteByTitle ==
  /\ pc = "deleteOne"
  /\ books' = DeleteOne(books, {<<"title", "eq", RustAndRoses>>})
  /\ out' = DeleteResult(books, {<<"title", "eq", RustAndRoses>>})
  /\ pc' = "verifyDelete"
  /\ UNCHANGED <<indexes, mode, printed>>

VerifyDelete ==
  Query("verifyDelete", Find(books, {<<"title", "eq", RustAndRoses>>}, AllFields),
        "findInStock")

FindInStock ==
  Query("findInStock",
        Find(books, {<<"in_stock", "eq", TRUE>>, <<"published_year", "gt", StockYearAfter>>},
             {"title", "author", "published_year"}),
        "projectAll")

ProjectAll ==
  Query("projectAll", Find(books, {}, {"title", "author", "price"}), "sortPriceAsc")

SortPriceAsc ==
  \E r \in SortOutcomes(Find(books, {}, {"title", "price"}), "price", 1) :
    Query("sortPriceAsc", r, "sortPriceDesc")

SortPriceDesc ==
  \E r \in SortOutcomes(Find(books, {}, {"title", "price"}), "price", -1) :
    Query("sortPriceDesc", r, "page1")

\* print('--- Page n ---'); printjson(showPage(n))
PrintPage(at, page, next) ==
  /\ pc = at
  /\ \E r \in showPage(page) : printed' = Append(printed, r)
  /\ pc' = next
  /\ UNCHANGED <<books, indexes, mode, out>>

PrintPage1 == PrintPage("page1", 1, "page2")

PrintPage2 == PrintPage("page2", 2, "avgByGenre")

AvgByGenre ==
  \E r \in AveragePriceByGenre(books) : Query("avgByGenre", r, "topAuthor")

TopAuthor ==
  \E r \in TopAuthorByBookCount(books) : Query("topAuthor", r, "countByDecade")

DecadeCounts ==
  \E r \in CountByDecade(books) : Query("countByDecade", r, "createIndexTitle")

EnsureIndex(at, keys, next) ==
  /\ pc = at
  /\ indexes' = CreateIndex(indexes, keys)
  /\ out' = IndexName(keys)
  /\ pc' = next
  /\ UNCHANGED <<books, mode, printed>>

CreateIndexTitle == EnsureIndex("createIndexTitle", TitleIndex, "createIndexCompound")

CreateIndexCompound == EnsureIndex("createIndexCompound", CompoundIndex, "explainBefore")

\* print("=== explain ... ==="); printjson(find({title: ...}).explain(...))
PrintExplain(at, next) ==
  /\ pc = at
  /\ printed' = Append(printed, Explain(books, indexes, SilentRiver))
  /\ pc' = next
  /\ UNCHANGED <<books, indexes, mode, out>>

ExplainBefore == PrintExplain("explainBefore", "explainAfter")

ExplainAfter == PrintExplain("explainAfter", "done")

Next ==
  \/ CreateCollection
  \/ FindGenre
  \/ FindGenreProjected
  \/ FindAfterYear
  \/ FindAuthor
  \/ UpdatePrice
  \/ VerifyUpdate
  \/ DeleteByTitle
  \/ VerifyDelete
  \/ FindInStock
  \/ ProjectAll
  \/ SortPriceAsc
  \/ SortPriceDesc
  \/ PrintPage1
  \/ PrintPage2
  \/ AvgByGenre
  \/ TopAuthor
  \/ DecadeCounts
  \/ CreateIndexTitle
  \/ CreateIndexCompound
  \/ ExplainBefore
  \/ ExplainAfter

Spec == Init /\ [][Next]_vars

(***************************************************************************)
(* The pagination helper on its own: showPage(1), showPage(2), ... printed *)
(* one after the other against a collection that differs in its titles.    *)
(***************************************************************************)
MaxPage == (MaxPageBooks + pageSize - 1) \div pageSize + 1

\* The i-th book of a collection showPage is run against: the titles vary,
\* the prices tell the books apart.
PageBook(t, i) ==
  [title |-> t, author |-> MariaNjeri, genre |-> Fantasy,
   published_year |-> 2000 + i, price |-> 100 * i, in_stock |-> TRUE]

InitPaginate ==
  /\ \E m \in 0..MaxPageBooks : \E t \in [1..m -> DOMAIN TitleRank] :
       /\ \A u \in DOMAIN TitleRank : Cardinality({i \in 1..m : t[i] = u}) <= MaxDup
       /\ books = Collection([i \in 1..m |-> PageBook(t[i], i)])
  /\ indexes = <<IdIndex>>
  /\ mode = "paste"
  /\ pc = "pages"
  /\ out = <<>>
  /\ printed = <<>>

PrintNextPage ==
  /\ Len(printed) < MaxPage
  /\ PrintPage("pages", Len(printed) + 1, "pages")

NextPaginate == PrintNextPage

SpecPaginate == InitPaginate /\ [][NextPaginate]_vars

(***************************************************************************)
(* The decade pipeline on its own, against collections that differ in      *)
(* their years.                                                            *)
(***************************************************************************)
DecadeYears == ((0 - MaxYear)..MaxYear) \cup (1990..(1990 + MaxYear))

\* A book of a collection the decade pipeline is run against: the years vary.
DecadeBook(y) ==
  [title |-> SilentRiver, author |-> MariaNjeri, genre |-> Fantasy,
   published_year |-> y, price |-> NewPrice, in_stock |-> TRUE]

InitDecade ==
  /\ \E m \in 0..MaxDecadeBooks : \E y \in [1..m -> DecadeYears] :
       books = Collection([i \in 1..m |-> DecadeBook(y[i])])
  /\ indexes = <<IdIndex>>
  /\ mode = "paste"
  /\ pc = "countByDecade"
  /\ out = <<>>
  /\ printed = <<>>

NextDecade == DecadeCounts

SpecDecade == InitDecade /\ [][NextDecade]_vars

(***************************************************************************)
(* Properties.                                                             *)
(***************************************************************************)
Ceil(n, d) == (n + d - 1) \div d

Min(a, b) == IF a <= b THEN a ELSE b

Max(a, b) == IF a >= b THEN a ELSE b

RECURSIVE SumOver(_, _)
SumOver(I, f) ==
  IF I = {} THEN 0
  ELSE LET i == CHOOSE i \in I : TRUE IN f[i] + SumOver(I \ {i}, f)

\* The positions of the documents of coll whose field has the value v.
Where(coll, field, v) == {i \in DOMAIN coll : coll[i][field] = v}

Values(coll, field) == {coll[i][field] : i \in DOMAIN coll}

\* Positions [(k-1)*p, k*p) of s, as far as s goes.
Window(s, k, p) ==
  [i \in 1..Max(0, Min(p, Len(s) - (k - 1) * p)) |-> s[(k - 1) * p + i]]

TitleSorted == SortOutcomes(Find(books, {}, {"title", "author", "price"}), "title", 1)

\* C1: page k and page k+1 are the windows [(k-1)*p, k*p) and [k*p, (k+1)*p)
\* of one title-sorted arrangement of the full result set, so that no record
\* is repeated and none is skipped between them.
C1_ContiguousPages ==
  \A k \in 1..(Len(printed) - 1) :
    \E s \in TitleSorted :
      /\ printed[k] = Window(s, k, pageSize)
      /\ printed[k + 1] = Window(s, k + 1, pageSize)

\* C2, as amended: every page has at most p records; the pages before page
\* ceil(n/p) are full, page ceil(n/p) is not empty and every later page is
\* empty, so that ceil(n/p) pages are not empty; the page lengths sum to n.
C2_PageLengths ==
  LET n    == Len(books)
      last == Ceil(n, pageSize)
      lens == [k \in DOMAIN printed |-> Len(printed[k])]
  IN  /\ \A k \in DOMAIN printed :
           /\ lens[k] <= pageSize
           /\ k < last => lens[k] = pageSize
           /\ k = last => lens[k] >= 1
           /\ k > last => lens[k] = 0
      /\ Len(printed) >= last =>
           /\ SumOver(DOMAIN printed, lens) = n
           /\ Cardinality({k \in DOMAIN printed : lens[k] > 0}) = last

\* C2: a short last page (6 records, pages of 5, 1 and 0) has been printed.
C2_Witness ==
  /\ Len(printed) = MaxPage
  /\ Len(books) = pageSize + 1
  /\ Len(printed[1]) = pageSize
  /\ Len(printed[2]) = 1
  /\ printed[3] = <<>>

\* C2 as stated: the number of full pages (of p records) is ceil(n/p).
C2_FullPagesIsCeil ==
  Len(printed) = MaxPage =>
    Cardinality({k \in DOMAIN printed : Len(printed[k]) = pageSize})
      = Ceil(Len(books), pageSize)

\* C3: the counts of countByDecade sum to the number of records, the decade
\* of every record is the key of exactly one row, every row is the decade of
\* some record, and a row counts the records of its decade.
C3_DecadePartition ==
  pc = "createIndexTitle" =>
    LET years == [i \in DOMAIN books |-> books[i].published_year]
        cnt   == [j \in DOMAIN out |-> out[j].count]
    IN  /\ SumOver(DOMAIN out, cnt) = Len(books)
        /\ \A i \in DOMAIN books :
             Cardinality({j \in DOMAIN out : out[j]._id = Decade(years[i])}) = 1
        /\ \A j \in DOMAIN out :
             out[j].count = Cardinality({i \in DOMAIN books : Decade(years[i]) = out[j]._id})
        /\ \A j \in DOMAIN out : out[j].count >= 1

\* C3: three records in two decades have been counted.
C3_Witness ==
  /\ pc = "createIndexTitle"
  /\ Len(books) = 3
  /\ Len(out) = 2
  /\ \E j \in DOMAIN out : out[j].count = 2

\* C4: averagePriceByGenre has exactly one row per genre of the collection;
\* its avgPrice is the mean of the prices of the records of that genre and
\* its count their number.
C4_AveragePerGenre ==
  pc = "topAuthor" =>
    LET price == [i \in DOMAIN books |-> books[i].price]
    IN  /\ {out[j]._id : j \in DOMAIN out} = Values(books, "genre")
        /\ Len(out) = Cardinality(Values(books, "genre"))
        /\ \A j \in DOMAIN out :
             LET G == Where(books, "genre", out[j]._id)
             IN  /\ out[j].count = Cardinality(G)
                 /\ out[j].avgPrice.den > 0
                 /\ out[j].avgPrice.num * Cardinality(G)
                      = SumOver(G, price) * out[j].avgPrice.den

\* C4: two genres, one of them with two records priced 14.99 and 12.99,
\* whose mean is 13.99.
C4_Witness ==
  /\ pc = "topAuthor"
  /\ Len(out) = 2
  /\ \E j \in DOMAIN out :
       /\ out[j].count = 2
       /\ out[j].avgPrice = [num |-> 1399, den |-> 1]
       /\ {books[i].price : i \in Where(books, "genre", out[j]._id)} = {1499, 1299}

\* C5: topAuthorByBookCount returns no row for an empty collection and
\* otherwise exactly one row, whose count is the largest number of records
\* sharing an author and whose author has that many records.
C5_TopAuthor ==
  pc = "countByDecade" =>
    LET N(a) == Cardinality(Where(books, "author", a))
    IN  IF books = <<>> THEN out = <<>>
        ELSE /\ Len(out) = 1
             /\ out[1]._id \in Values(books, "author")
             /\ out[1].count = N(out[1]._id)
             /\ \A a \in Values(books, "author") : N(a) <= out[1].count

\* C5: two authors tie for the maximum and one row is returned.
C5_Witness ==
  /\ pc = "countByDecade"
  /\ Len(out) = 1
  /\ \E a, b \in Values(books, "author") :
       /\ a # b
       /\ Cardinality(Where(books, "author", a)) = Cardinality(Where(books, "author", b))
       /\ Cardinality(Where(books, "author", a)) = out[1].count

\* The first position of coll whose title is t, 0 when there is none.
FirstTitled(coll, t) ==
  IF Where(coll, "title", t) = {} THEN 0
  ELSE CHOOSE i \in Where(coll, "title", t) : \A j \in Where(coll, "title", t) : i <= j

\* C6: updatePrice sets the price of the first record with the title and
\* changes nothing else: the other fields of that record, every other record
\* and the number of records stay; with no match the collection stays and
\* nothing is modified.  In the lookup right after it, the record that was
\* matched shows the new price.
C6_UpdateFrame ==
  /\ [][pc = "updateOne" =>
          LET i == FirstTitled(books, SilentRiver)
          IN  /\ Len(books') = Len(books)
              /\ \A j \in DOMAIN books : j # i => books'[j] = books[j]
              /\ i = 0 => books' = books /\ out'.modifiedCount = 0
              /\ i # 0 =>
                   /\ books'[i].price = NewPrice
                   /\ \A f \in AllFields \ {"price"} : books'[i][f] = books[i][f]
                   /\ out'.matchedCount = 1]_vars
  /\ [](pc = "deleteOne" =>
          /\ Len(out) = Cardinality(Where(books, "title", SilentRiver))
          /\ out # <<>> => out[1] = [title |-> SilentRiver, price |-> NewPrice])

\* C6: the first of two records with the title has been repriced and the
\* second has kept its price.
C6_Witness ==
  /\ pc = "verifyUpdate"
  /\ out.modifiedCount = 1
  /\ \E i, j \in Where(books, "title", SilentRiver) :
       i < j /\ books[i].price = NewPrice /\ books[j].price # NewPrice

\* C7, as amended: deleteByTitle removes the first record with the title and
\* no other, so that the number of records goes down by 1 when there was one
\* and by 0 when there was none, and the records of other titles stay as they
\* are; the lookup right after it yields the records with the title that are
\* left, one fewer than before.
C7_DeleteOneFrame ==
  /\ [][pc = "deleteOne" =>
          LET i == FirstTitled(books, RustAndRoses)
              m == Cardinality(Where(books, "title", RustAndRoses))
          IN  /\ Len(books') = Len(books) - (IF m > 0 THEN 1 ELSE 0)
              /\ Cardinality(Where(books', "title", RustAndRoses)) = Max(m - 1, 0)
              /\ out'.deletedCount = (IF m > 0 THEN 1 ELSE 0)
              /\ \A j \in DOMAIN books' :
                   books'[j] = books[IF i = 0 \/ j < i THEN j ELSE j + 1]]_vars
  /\ [][pc = "verifyDelete" =>
          /\ books' = books
          /\ Len(out') = Cardinality(Where(books, "title", RustAndRoses))
          /\ \A j \in DOMAIN out' : out'[j].title = RustAndRoses]_vars

\* C7: one of two records with the title has been deleted and the lookup
\* shows the other.
C7_Witness ==
  /\ pc = "findInStock"
  /\ Len(out) = 1
  /\ out[1].title = RustAndRoses
  /\ Len(books) = 2

\* C7 as stated: the lookup after deleteByTitle yields an empty sequence.
C7_LookupEmpty == pc = "findInStock" => out = <<>>

\* C8: for a year y >= 0 the decade y - (y mod 10) is a multiple of 10 with
\* decade <= y <= decade + 9, it is a key of the result, and two records are
\* in the same group exactly when their years are in the same ten years.
C8_ConventionalDecade ==
  pc = "createIndexTitle" =>
    LET Y == {y \in Values(books, "published_year") : y >= 0}
    IN  /\ \A y \in Y :
             /\ Decade(y) % 10 = 0
             /\ Decade(y) <= y /\ y <= Decade(y) + 9
             /\ \E j \in DOMAIN out : out[j]._id = Decade(y)
        /\ \A y, z \in Y : (Decade(y) = Decade(z)) <=> (y \div 10 = z \div 10)
        /\ Y = Values(books, "published_year") =>
             Len(out) = Cardinality({y \div 10 : y \in Y})

\* C8: 1995 and 2001 have been put in the decades 1990 and 2000.
C8_Witness ==
  /\ pc = "createIndexTitle"
  /\ Values(books, "published_year") = {1995, 2001}
  /\ out = <<[_id |-> 1990, count |-> 1], [_id |-> 2000, count |-> 1]>>

Occurrences(s, x) == Cardinality({i \in DOMAIN s : s[i] = x})

\* C9: each createIndex leaves the records alone, raises no error, and is a
\* no-op when the index exists; after the two calls there is exactly one
\* index on title and one on (author, published_year desc), no index is
\* there twice, and making the two calls again changes nothing.
C9_EnsureIndexesIdempotent ==
  /\ [][(pc \in {"createIndexTitle", "createIndexCompound"}) =>
          LET keys == IF pc = "createIndexTitle" THEN TitleIndex ELSE CompoundIndex
          IN  /\ books' = books
              /\ out' = IndexName(keys)
              /\ keys \in Range(indexes) => indexes' = indexes
              /\ \A i \in DOMAIN indexes : indexes'[i] = indexes[i] ]_vars
  /\ [](pc \in {"explainBefore", "explainAfter", "done"} =>
          /\ Occurrences(indexes, TitleIndex) = 1
          /\ Occurrences(indexes, CompoundIndex) = 1
          /\ \A k \in Range(indexes) : Occurrences(indexes, k) = 1
          /\ CreateIndex(CreateIndex(indexes, TitleIndex), CompoundIndex) = indexes)

\* C9: the first createIndex has run against a collection that had both
\* indexes already.
C9_Witness ==
  /\ pc = "createIndexCompound"
  /\ indexes = <<IdIndex, TitleIndex, CompoundIndex>>
  /\ books # <<>>

HasTitleIndex == TitleIndex \in Range(indexes)

\* C10: the explain printed as BEFORE creating the index is run without the
\* index on title, the one printed as AFTER is run with it.
C10_ExplainBeforeAndAfter ==
  /\ pc = "explainAfter" => ~HasTitleIndex /\ printed[Len(printed)].stage = "COLLSCAN"
  /\ pc = "done" => HasTitleIndex /\ printed[Len(printed)].stage = "IXSCAN"

====
